---- MODULE Spec2Model ----
(***************************************************************************)
(* Model of frvcp_py/labelalgo/core.py: the updatable priority queue       *)
(* PseudoFibonacciHeap and the label PCCMLabel (evaluation of its SOC      *)
(* profile, dominance, ordering and the walks over its ancestor chain).    *)
(***************************************************************************)
EXTENDS Integers, Sequences, FiniteSets, TLC

(***************************************************************************)
(* Bounds of the model.                                                    *)
(***************************************************************************)
NumTasks == 2
MaxPrio == 2
MaxCount == 4

MaxTime == 3
MaxPts == 3
MaxSlope == 3
MaxSoc0 == 1
MaxKey == 1
MaxNode == 1
NumCS == 2
MaxEnergy == 1
MaxLabels == 3

Tasks == 1..NumTasks
Prios == 1..MaxPrio

VARIABLES
  pq,             \* PseudoFibonacciHeap._pq: the heap, a list of entries
  entry_finder,   \* PseudoFibonacciHeap._entry_finder: task -> entry
  counter,        \* next value of PseudoFibonacciHeap._counter
  last,           \* the last queue call: operation, arguments, outcome
  live,           \* history: task -> priority of its latest add_task, for the
                  \* tasks added and neither removed nor popped since
  pre,            \* the queue and the history as they were before the last call
  labA, labB, labC, \* the labels a label method is called on and with
  t1, t2,         \* the times get_soc_dichotomic is called with
  arena,          \* the labels built so far; a label's parent is an index here
  out             \* the last label call: method, arguments, outcome

qvars == <<pq, entry_finder, counter, last, live, pre>>
lvars == <<labA, labB, labC, t1, t2, arena, out>>
vars == <<pq, entry_finder, counter, last, live, pre,
          labA, labB, labC, t1, t2, arena, out>>

(***************************************************************************)
(* PseudoFibonacciHeap                                                     *)
(***************************************************************************)
\* self._REMOVED: the placeholder written over the task of a dead entry.
\* Tasks are label ids (positive integers); the placeholder is none of them.
REMOVED == -1

\* Python's None: an absent last_visited_cs, an absent parent, no value returned.
None == 0

\* An entry is the list [priority, count, task].
Entry(priority, count, task) ==
  [priority |-> priority, count |-> count, task |-> task]

\* Python's list comparison entry1 < entry2, as heapq uses it: lexicographic
\* on priority, then count. Counts are unique, so the task is never compared.
EntryLess(a, b) ==
  \/ a.priority < b.priority
  \/ a.priority = b.priority /\ a.count < b.count

\* heapq._siftdown(heap, startpos, pos) with positions counted from 1:
\* newitem moves up from pos while it is smaller than its parent.
RECURSIVE SiftDownFrom(_, _, _, _)
SiftDownFrom(heap, startpos, pos, newitem) ==
  IF pos > startpos /\ EntryLess(newitem, heap[pos \div 2])
    THEN SiftDownFrom([heap EXCEPT ![pos] = heap[pos \div 2]],
                      startpos, pos \div 2, newitem)
    ELSE [heap EXCEPT ![pos] = newitem]

siftdown(heap, startpos, pos) == SiftDownFrom(heap, startpos, pos, heap[pos])

\* heapq._siftup(heap, pos): the smaller child is pulled up until a leaf is
\* reached, then newitem is sifted down from there.
RECURSIVE SiftUpFrom(_, _, _, _)
SiftUpFrom(heap, startpos, pos, newitem) ==
  LET childpos == 2 * pos
      rightpos == childpos + 1
      c == IF rightpos <= Len(heap) /\ ~EntryLess(heap[childpos], heap[rightpos])
             THEN rightpos ELSE childpos
  IN IF childpos <= Len(heap)
       THEN SiftUpFrom([heap EXCEPT ![pos] = heap[c]], startpos, c, newitem)
       ELSE SiftDownFrom([heap EXCEPT ![pos] = newitem], startpos, pos, newitem)

siftup(heap, pos) == SiftUpFrom(heap, pos, pos, heap[pos])

\* heapq.heappush(heap, item)
heappush(heap, item) == siftdown(Append(heap, item), 1, Len(heap) + 1)

\* heapq.heappop(heap) on a non-empty heap: the item returned and the heap left.
heappop(heap) ==
  LET lastelt == heap[Len(heap)]
      rest == SubSeq(heap, 1, Len(heap) - 1)
  IN IF rest # <<>>
       THEN [item |-> heap[1], heap |-> siftup([rest EXCEPT ![1] = lastelt], 1)]
       ELSE [item |-> lastelt, heap |-> rest]

\* entry[-1] = self._REMOVED: the entry is one list object shared by the heap
\* and the mapping, so the write shows in the heap. count identifies the object.
MarkRemoved(heap, entry) ==
  [i \in DOMAIN heap |->
     IF heap[i].count = entry.count THEN [heap[i] EXCEPT !.task = REMOVED]
     ELSE heap[i]]

\* dict without one key
DictDel(d, k) == [x \in (DOMAIN d) \ {k} |-> d[x]]

\* dict with d[k] = v
DictSet(d, k, v) == [x \in (DOMAIN d) \cup {k} |-> IF x = k THEN v ELSE d[x]]

\* A queue value: the three fields of the object.
Queue(h, f, c) == [pq |-> h, entry_finder |-> f, counter |-> c]

\* remove_task without the write of the placeholder (mutation).
remove_task_keeps_entry(q, task) ==
  IF task \notin DOMAIN q.entry_finder
    THEN [q |-> q, status |-> "KeyError", ret |-> None]
    ELSE [q |-> Queue(q.pq, DictDel(q.entry_finder, task), q.counter),
          status |-> "ok", ret |-> None]

\* remove_task(task): dict.pop raises KeyError for a task that is not a key,
\* before anything is written; otherwise the entry is marked REMOVED.
remove_task(q, task) ==
  IF task \notin DOMAIN q.entry_finder
    THEN [q |-> q, status |-> "KeyError", ret |-> None]
    ELSE [q |-> Queue(MarkRemoved(q.pq, q.entry_finder[task]),
                      DictDel(q.entry_finder, task), q.counter),
          status |-> "ok", ret |-> None]

\* add_task that pushes the new entry without removing the old one (mutation).
add_task_no_remove(q, task, priority) ==
  LET entry == Entry(priority, q.counter, task)
  IN [q |-> Queue(heappush(q.pq, entry),
                  DictSet(q.entry_finder, task, entry), q.counter + 1),
      status |-> "ok", ret |-> None]

\* add_task(task, priority)
add_task(q, task, priority) ==
  LET q1 == IF task \in DOMAIN q.entry_finder THEN remove_task(q, task).q ELSE q
      count == q1.counter
      entry == Entry(priority, count, task)
  IN [q |-> Queue(heappush(q1.pq, entry),
                  DictSet(q1.entry_finder, task, entry), count + 1),
      status |-> "ok", ret |-> None]

\* pop_task that returns whatever entry is on top, dead or not (mutation).
pop_task_no_skip(q) ==
  IF q.pq = <<>>
    THEN [q |-> q, status |-> "KeyError", ret |-> None]
    ELSE LET p == heappop(q.pq)
             task == p.item.task
         IN [q |-> Queue(p.heap, DictDel(q.entry_finder, task), q.counter),
             status |-> "ok", ret |-> task]

\* pop_task(): entries are popped until one is not REMOVED; its task leaves the
\* mapping (del raises KeyError for a missing key) and is returned; KeyError
\* once the heap is empty.
RECURSIVE pop_task(_)
pop_task(q) ==
  IF q.pq = <<>>
    THEN [q |-> q, status |-> "KeyError", ret |-> None]
    ELSE LET p == heappop(q.pq)
             task == p.item.task
             q1 == Queue(p.heap, q.entry_finder, q.counter)
         IN IF task # REMOVED
              THEN IF task \in DOMAIN q.entry_finder
                     THEN [q |-> Queue(p.heap, DictDel(q.entry_finder, task), q.counter),
                           status |-> "ok", ret |-> task]
                     ELSE [q |-> q1, status |-> "KeyError", ret |-> None]
              ELSE pop_task(q1)

ThisQueue == Queue(pq, entry_finder, counter)

NoCall == [op |-> "none", task |-> None, priority |-> 0,
           status |-> "ok", ret |-> None]

EmptyDict == [x \in {} |-> 0]

NoOut == [op |-> "none"]

\* No label call has been made and no label built.
LabelsIdle ==
  /\ labA = None /\ labB = None /\ labC = None
  /\ t1 = 0 /\ t2 = 0
  /\ arena = <<>>
  /\ out = NoOut

\* The queue as __init__ leaves it.
QueueIdle ==
  /\ pq = <<>>
  /\ entry_finder = EmptyDict
  /\ counter = 0
  /\ last = NoCall
  /\ live = EmptyDict
  /\ pre = [pq |-> <<>>, entry_finder |-> EmptyDict, live |-> EmptyDict]

QueueInit == LabelsIdle /\ QueueIdle

Commit(r, op, task, priority, newlive) ==
  /\ pq' = r.q.pq
  /\ entry_finder' = r.q.entry_finder
  /\ counter' = r.q.counter
  /\ last' = [op |-> op, task |-> task, priority |-> priority,
              status |-> r.status, ret |-> r.ret]
  /\ live' = newlive
  /\ pre' = [pq |-> pq, entry_finder |-> entry_finder, live |-> live]
  /\ UNCHANGED lvars

AddTask ==
  \E task \in Tasks, priority \in Prios :
    /\ counter < MaxCount
    /\ LET r == add_task(ThisQueue, task, priority)
       IN Commit(r, "add", task, priority, DictSet(live, task, priority))

RemoveTask ==
  \E task \in Tasks :
    LET r == remove_task(ThisQueue, task)
    IN Commit(r, "remove", task, 0, DictDel(live, task))

PopTask ==
  LET r == pop_task(ThisQueue)
  IN Commit(r, "pop", None, 0,
            IF r.status = "ok" THEN DictDel(live, r.ret) ELSE live)

QueueNext == AddTask \/ RemoveTask \/ PopTask

QueueSpec == QueueInit /\ [][QueueNext]_vars

(***************************************************************************)
(* Claims about the queue                                                  *)
(***************************************************************************)
TrackedBefore == DOMAIN pre.live

Tombstones(heap) == {i \in DOMAIN heap : heap[i].task = REMOVED}

\* C1: a successful pop_task returns a task that was tracked when it was
\* called (added, and neither removed nor popped since) and whose priority, as
\* given by its latest add_task, is the smallest among the tracked tasks.
C1_PopReturnsTrackedMin ==
  (last.op = "pop" /\ last.status = "ok") =>
     /\ last.ret \in TrackedBefore
     /\ \A u \in TrackedBefore : pre.live[last.ret] <= pre.live[u]

\* A pop that had to choose among several tracked tasks and to skip a dead
\* entry: the popped task was the smallest, and a tombstone lay in the heap.
C1_Witness ==
  /\ last.op = "pop" /\ last.status = "ok"
  /\ Cardinality(TrackedBefore) >= 2
  /\ Tombstones(pre.pq) # {}
  /\ \E u \in TrackedBefore : pre.live[last.ret] < pre.live[u]

\* C7: remove_task of a task that is not tracked fails with KeyError, pop_task
\* with no tracked task fails with KeyError; a failed call returns nothing and
\* leaves the mapping of tracked tasks to their entries as it was.
C7_FailuresLeaveQueue ==
  /\ (last.op = "remove" /\ last.task \notin TrackedBefore) =>
        last.status = "KeyError"
  /\ (last.op = "pop" /\ TrackedBefore = {}) => last.status = "KeyError"
  /\ last.status = "KeyError" =>
        /\ last.ret = None
        /\ entry_finder = pre.entry_finder
        /\ live = pre.live
        /\ \/ last.op = "remove" /\ last.task \notin TrackedBefore
           \/ last.op = "pop" /\ TrackedBefore = {}

\* pop_task failed on a heap that held only tombstones.
C7_Witness ==
  /\ last.op = "pop" /\ last.status = "KeyError"
  /\ pre.pq # <<>>
  /\ Tombstones(pre.pq) = DOMAIN pre.pq

\* remove_task failed for a task that had been tracked and was popped before.
C7_WitnessRemove ==
  /\ last.op = "remove" /\ last.status = "KeyError"
  /\ pre.live # EmptyDict
  /\ \E i \in DOMAIN pq : pq[i].task = REMOVED

\* C10: the mapping and the heap agree. The tracked tasks are the keys of the
\* mapping; each has exactly one heap entry carrying its task, which is the
\* mapped entry and carries the task's latest priority; sequence numbers are
\* unique in the heap; every heap entry that is not a tombstone is the mapped
\* entry of its task; a task just popped has no entry left in the heap.
C10_MappingAgreesWithHeap ==
  /\ DOMAIN entry_finder = DOMAIN live
  /\ \A t \in DOMAIN entry_finder :
        /\ Cardinality({i \in DOMAIN pq : pq[i].task = t}) = 1
        /\ \E i \in DOMAIN pq : pq[i] = entry_finder[t]
        /\ entry_finder[t].task = t
        /\ entry_finder[t].priority = live[t]
  /\ \A i, j \in DOMAIN pq : pq[i].count = pq[j].count => i = j
  /\ \A i \in DOMAIN pq :
        pq[i].task # REMOVED =>
          pq[i].task \in DOMAIN entry_finder /\ entry_finder[pq[i].task] = pq[i]
  /\ (last.op = "pop" /\ last.status = "ok") =>
        \A i \in DOMAIN pq : pq[i].task # last.ret

\* A tracked task was given a new priority: its old entry is a tombstone in
\* the heap next to the new one.
C10_Witness ==
  /\ last.op = "add" /\ last.task \in TrackedBefore
  /\ pre.live[last.task] # last.priority
  /\ Tombstones(pq) # {}
  /\ Cardinality(DOMAIN entry_finder) >= 2

(***************************************************************************)
(* PCCMLabel                                                               *)
(***************************************************************************)
\* -float('inf'): below every SOC a label of the model can hold.
NegInf == -1000000

Last(seq) == seq[Len(seq)]

\* _compute_y_intercept for a label that has slopes:
\* [socs[b] - slope[b] * times[b] for b in range(len(slope))]
compute_y_intercept(supporting_pts, slope) ==
  [b \in 1..Len(slope) |-> supporting_pts[2][b] - slope[b] * supporting_pts[1][b]]

\* PCCMLabel.__init__ with y_intercept left to its default. supporting_pts is
\* the list [times, socs]; parent is the index of the parent label in the
\* arena, or None.
PCCMLabel(node_id_for_label, key_time, trip_time, last_visited_cs, soc_arr_to_last_cs, energy_consumed_since_last_cs, supporting_pts, slope, time_last_arc, energy_last_arc, parent) ==
  [node_id_for_label |-> node_id_for_label,
   key_time |-> key_time,
   trip_time |-> trip_time,
   last_visited_cs |-> last_visited_cs,
   soc_arr_to_last_cs |-> soc_arr_to_last_cs,
   energy_consumed_since_last_cs |-> energy_consumed_since_last_cs,
   supporting_pts |-> supporting_pts,
   slope |-> slope,
   time_last_arc |-> time_last_arc,
   energy_last_arc |-> energy_last_arc,
   parent |-> parent,
   y_intercept |-> compute_y_intercept(supporting_pts, slope)]

\* The loop of get_soc_dichotomic, low and high counted from 0 as in the code.
RECURSIVE Dichotomy(_, _, _, _)
Dichotomy(self, time, low, high) ==
  IF low + 1 < high
    THEN LET mid == (low + high) \div 2
         IN IF self.supporting_pts[1][mid + 1] < time
              THEN Dichotomy(self, time, mid, high)
              ELSE Dichotomy(self, time, low, mid)
    ELSE low

\* get_soc_dichotomic(time). n_pts is len(self.supporting_pts), the length of
\* the list [times, socs].
get_soc_dichotomic(self, time) ==
  IF time < self.trip_time
    THEN NegInf
    ELSE LET n_pts == Len(self.supporting_pts)
         IN IF time >= Last(self.supporting_pts[1])
              THEN Last(self.supporting_pts[2])
              ELSE LET low == Dichotomy(self, time, 0, n_pts - 1)
                   IN self.slope[low + 1] * time + self.y_intercept[low + 1]

get_first_supp_pt_soc(self) == self.supporting_pts[2][1]

\* dominates(other): "True", "False", or the exception raised. The first loop
\* calls other.getSOCDichotomic, an attribute PCCMLabel does not define (the
\* method is get_soc_dichotomic): its first iteration raises AttributeError.
dominates(self, other) ==
  LET n_pts == Len(self.supporting_pts[1])
      n_pts_other == Len(other.supporting_pts[1])
  IN IF self.trip_time > other.trip_time THEN "False"
     ELSE IF Last(self.supporting_pts[2]) < Last(other.supporting_pts[2])
       THEN "False"
     ELSE IF n_pts > 0 THEN "AttributeError"
     ELSE IF \E k \in 1..n_pts_other :
               get_soc_dichotomic(self, other.supporting_pts[1][k])
                 < other.supporting_pts[2][k]
       THEN "False"
     ELSE "True"

\* The loop of get_path_from_last_customer from the label at index curr.
\* curr_parent.last_visited_cs is read before curr_parent is tested for None:
\* past the root the read raises AttributeError.
RECURSIVE PathWalk(_, _, _)
PathWalk(labels, curr, path) ==
  LET next_prev_cs == labels[curr].last_visited_cs
      path1 == Append(path, labels[curr].node_id_for_label)
      curr_parent == labels[curr].parent
  IN IF curr_parent = None
       THEN [status |-> "AttributeError", value |-> <<>>]
       ELSE LET curr_prev_cs == labels[curr_parent].last_visited_cs
            IN IF curr_prev_cs = None \/ curr_prev_cs = next_prev_cs
                 THEN [status |-> "ok", value |-> path1]
                 ELSE PathWalk(labels, curr_parent, path1)

\* get_path_from_last_customer() of the label at index self
get_path_from_last_customer(labels, self) ==
  IF labels[self].last_visited_cs = None
    THEN [status |-> "ok", value |-> <<>>]
    ELSE PathWalk(labels, self, <<>>)

\* get_charging_amounts() of the label at index self. The first amount adds
\* self.get_first_supp_pt_soc, the bound method and not its result, to a
\* number: that raises TypeError before any parent is visited.
get_charging_amounts(labels, self) ==
  IF labels[self].last_visited_cs = None
    THEN [status |-> "ok", value |-> <<>>]
    ELSE [status |-> "TypeError", value |-> <<>>]

\* compare_to with the tie on key_time broken the other way round (mutation).
compare_to_smaller_soc_first(self, other) ==
  IF self.key_time < other.key_time THEN -1
  ELSE IF self.key_time > other.key_time THEN 1
  ELSE LET diff == self.supporting_pts[2][1] - other.supporting_pts[2][1]
       IN IF diff > 0 THEN 1 ELSE IF diff < 0 THEN -1 ELSE 0

\* compare_to(other)
compare_to(self, other) ==
  IF self.key_time < other.key_time THEN -1
  ELSE IF self.key_time > other.key_time THEN 1
  ELSE LET diff == other.supporting_pts[2][1] - self.supporting_pts[2][1]
       IN IF diff > 0 THEN 1 ELSE IF diff < 0 THEN -1 ELSE 0

\* __eq__ and __lt__
eq(self, other) == compare_to(self, other) = 0
lt(self, other) == compare_to(self, other) < 0

(***************************************************************************)
(* The labels the methods are tried on: well-formed profiles. Times are    *)
(* strictly increasing, slopes are not negative, the SOCs follow from the  *)
(* first SOC and the slopes, and trip_time is the first time.              *)
(***************************************************************************)
TimeSeqs(n) ==
  {s \in [1..n -> 0..MaxTime] : \A i \in 1..(n - 1) : s[i] < s[i + 1]}

RECURSIVE SocAt(_, _, _, _)
SocAt(times, slope, soc0, i) ==
  IF i = 1 THEN soc0
  ELSE SocAt(times, slope, soc0, i - 1)
         + slope[i - 1] * (times[i] - times[i - 1])

Profile(times, slope, soc0) ==
  <<times, [i \in 1..Len(times) |-> SocAt(times, slope, soc0, i)]>>

\* A label with no charging station behind it and no parent.
FreeLabel(key_time, times, slope, soc0) ==
  PCCMLabel(0, key_time, times[1], None, 0, 0, Profile(times, slope, soc0),
            slope, 0, 0, None)

LabelsOfLen(n) ==
  {FreeLabel(0, times, slope, soc0) :
     times \in TimeSeqs(n), slope \in [1..(n - 1) -> 0..MaxSlope],
     soc0 \in 0..MaxSoc0}

Labels == UNION {LabelsOfLen(n) : n \in 2..MaxPts}

\* Labels that differ in key_time, first SOC and slope, for the ordering.
KeyedLabels ==
  {FreeLabel(key_time, <<0, MaxTime>>, <<slope>>, soc0) :
     key_time \in 0..MaxKey, slope \in 0..MaxSlope, soc0 \in 0..MaxSoc0}

EvalTimes == 0..(MaxTime + 1)

(***************************************************************************)
(* get_soc_dichotomic on one label at two times                            *)
(***************************************************************************)
EvalInit ==
  /\ QueueIdle
  /\ labA \in Labels /\ labB = None /\ labC = None
  /\ t1 \in EvalTimes /\ t2 \in EvalTimes
  /\ arena = <<>>
  /\ out = NoOut

Evaluate ==
  /\ out = NoOut
  /\ out' = [op |-> "evaluate",
             at1 |-> get_soc_dichotomic(labA, t1),
             at2 |-> get_soc_dichotomic(labA, t2),
             atLast |-> get_soc_dichotomic(labA, Last(labA.supporting_pts[1]))]
  /\ UNCHANGED <<labA, labB, labC, t1, t2, arena>>
  /\ UNCHANGED qvars

EvalNext == Evaluate

EvalSpec == EvalInit /\ [][EvalNext]_vars

Times(l) == l.supporting_pts[1]
Socs(l) == l.supporting_pts[2]

\* The SOC profile of a label as a function of time: negative infinity before
\* trip_time, the last SOC from the last breakpoint on, and in between the
\* line of the segment i, the largest index with times[i] <= time.
SegmentOf(l, time) ==
  CHOOSE i \in 1..Len(Times(l)) :
    /\ Times(l)[i] <= time
    /\ \A j \in 1..Len(Times(l)) : Times(l)[j] <= time => j <= i

ProfileAt(l, time) ==
  IF time < l.trip_time THEN NegInf
  ELSE IF time >= Last(Times(l)) THEN Last(Socs(l))
  ELSE l.slope[SegmentOf(l, time)] * time + l.y_intercept[SegmentOf(l, time)]

\* C3: get_soc_dichotomic(t) is negative infinity for t < trip_time, the last
\* SOC for t at or after the last breakpoint, and otherwise
\* slope[i] * t + y_intercept[i] for the largest i with times[i] <= t, for any
\* number of breakpoints.
C3_EvaluateBySegment ==
  out.op = "evaluate" => out.at1 = ProfileAt(labA, t1)

\* C3 for the labels of two breakpoints only.
C3_TwoBreakpoints ==
  (out.op = "evaluate" /\ Len(Times(labA)) = 2) => out.at1 = ProfileAt(labA, t1)

C3_TwoBreakpointsWitness ==
  /\ out.op = "evaluate" /\ Len(Times(labA)) = 2
  /\ Times(labA)[1] < t1 /\ t1 < Times(labA)[2]
  /\ labA.slope[1] > 0

\* C9: get_soc_dichotomic does not decrease from t1 to t2 when
\* trip_time <= t1 <= t2, and from the last breakpoint on it is the value at
\* the last breakpoint.
C9_EvaluateMonotone ==
  out.op = "evaluate" =>
    /\ (labA.trip_time <= t1 /\ t1 <= t2) => out.at1 <= out.at2
    /\ t1 >= Last(Times(labA)) => out.at1 = out.atLast

(***************************************************************************)
(* dominates on two labels at the same node                                *)
(***************************************************************************)
DomInit ==
  /\ QueueIdle
  /\ labA \in Labels /\ labB \in Labels /\ labC = None
  /\ t1 = 0 /\ t2 = 0
  /\ arena = <<>>
  /\ out = NoOut

Dominates ==
  /\ out = NoOut
  /\ out' = [op |-> "dominates",
             ab |-> dominates(labA, labB),
             ba |-> dominates(labB, labA)]
  /\ UNCHANGED <<labA, labB, labC, t1, t2, arena>>
  /\ UNCHANGED qvars

DomNext == Dominates

DomSpec == DomInit /\ [][DomNext]_vars

\* Dominance as the profiles define it.
ProfileDominates(a, b) ==
  /\ a.trip_time <= b.trip_time
  /\ Last(Socs(a)) >= Last(Socs(b))
  /\ \A i \in 1..Len(Times(a)) :
       ProfileAt(a, Times(a)[i]) >= ProfileAt(b, Times(a)[i])
  /\ \A i \in 1..Len(Times(b)) :
       ProfileAt(a, Times(b)[i]) >= ProfileAt(b, Times(b)[i])

\* C2: A.dominates(B) returns true if A.trip_time <= B.trip_time, A's last
\* SOC >= B's last SOC and A's SOC >= B's SOC at every breakpoint time of A
\* and of B; it returns false otherwise.
C2_DominatesIffProfileDominates ==
  out.op = "dominates" =>
    out.ab = (IF ProfileDominates(labA, labB) THEN "True" ELSE "False")

\* dominates returns false or raises: it returns true for no pair of labels.
DominatesNeverTrue ==
  out.op = "dominates" => out.ab # "True" /\ out.ba # "True"

(***************************************************************************)
(* compare_to and the comparisons built on it, on three labels             *)
(***************************************************************************)
CmpInit ==
  /\ QueueIdle
  /\ labA \in KeyedLabels /\ labB \in KeyedLabels /\ labC \in KeyedLabels
  /\ t1 = 0 /\ t2 = 0
  /\ arena = <<>>
  /\ out = NoOut

Compare ==
  /\ out = NoOut
  /\ out' = [op |-> "compare",
             cmp_ab |-> compare_to(labA, labB),
             lt_aa |-> lt(labA, labA),
             lt_ab |-> lt(labA, labB), lt_ba |-> lt(labB, labA),
             lt_bc |-> lt(labB, labC), lt_ac |-> lt(labA, labC),
             eq_ab |-> eq(labA, labB), eq_bc |-> eq(labB, labC),
             eq_ac |-> eq(labA, labC)]
  /\ UNCHANGED <<labA, labB, labC, t1, t2, arena>>
  /\ UNCHANGED qvars

CmpNext == Compare

CmpSpec == CmpInit /\ [][CmpNext]_vars

FirstSoc(l) == Socs(l)[1]

\* C5 as stated: the ordering is a strict total order on labels. Of two
\* distinct labels exactly one sorts before the other, and no two distinct
\* labels are reported equal.
C5_StrictTotalOrder ==
  (out.op = "compare" /\ labA # labB) =>
    /\ out.lt_ab # out.lt_ba
    /\ ~out.eq_ab

\* C5 as amended: the ordering is a strict weak order. The earlier key_time
\* sorts first, a tie on key_time is broken by the larger first SOC first, and
\* two labels are reported equal exactly when they agree on key_time and on the
\* first SOC; of a < b, b < a and a == b exactly one holds; < is irreflexive,
\* asymmetric and transitive, and == is transitive.
C5_StrictWeakOrder ==
  out.op = "compare" =>
    /\ out.lt_ab <=>
         \/ labA.key_time < labB.key_time
         \/ labA.key_time = labB.key_time /\ FirstSoc(labA) > FirstSoc(labB)
    /\ out.eq_ab <=>
         (labA.key_time = labB.key_time /\ FirstSoc(labA) = FirstSoc(labB))
    /\ out.cmp_ab = (IF out.lt_ab THEN -1 ELSE IF out.eq_ab THEN 0 ELSE 1)
    /\ Cardinality({x \in {"lt", "gt", "eq"} :
                      \/ x = "lt" /\ out.lt_ab
                      \/ x = "gt" /\ out.lt_ba
                      \/ x = "eq" /\ out.eq_ab}) = 1
    /\ ~out.lt_aa
    /\ out.lt_ab => ~out.lt_ba
    /\ (out.lt_ab /\ out.lt_bc) => out.lt_ac
    /\ (out.eq_ab /\ out.eq_bc) => out.eq_ac

\* Two distinct labels tie on key_time and first SOC and are reported equal,
\* and a third label sorts after both on the first SOC alone.
C5_Witness ==
  /\ out.op = "compare"
  /\ labA # labB /\ out.eq_ab
  /\ labB.key_time = labC.key_time /\ FirstSoc(labB) > FirstSoc(labC)
  /\ out.lt_bc /\ out.lt_ac

(***************************************************************************)
(* The walks over a label's ancestors. The driver builds labels one by     *)
(* one, each but the first extending a label built before.                 *)
(***************************************************************************)
ChainInit == QueueIdle /\ LabelsIdle

\* A label as the walks read it: node, last charging station, the three
\* quantities of the charge amount, parent.
ChainLabel(node, cs, soc_arr, energy, soc0, parent) ==
  PCCMLabel(node, 0, 0, cs, soc_arr, energy, Profile(<<0, MaxTime>>, <<0>>, soc0),
            <<0>>, 0, 0, parent)

NewLabel ==
  /\ Len(arena) < MaxLabels
  /\ \E node \in 0..MaxNode, cs \in {None} \cup (1..NumCS),
        energy \in 0..MaxEnergy, soc0 \in 0..MaxSoc0, soc_arr \in 0..MaxSoc0,
        parent \in (IF arena = <<>> THEN {None} ELSE 1..Len(arena)) :
       /\ soc_arr <= soc0
       /\ arena' = Append(arena, ChainLabel(node, cs, soc_arr, energy, soc0, parent))
  /\ out' = NoOut
  /\ UNCHANGED <<labA, labB, labC, t1, t2>>
  /\ UNCHANGED qvars

PathFromLastCustomer ==
  /\ \E self \in 1..Len(arena) :
       out' = [op |-> "path", self |-> self,
               result |-> get_path_from_last_customer(arena, self)]
  /\ UNCHANGED <<labA, labB, labC, t1, t2, arena>>
  /\ UNCHANGED qvars

ChargingAmounts ==
  /\ \E self \in 1..Len(arena) :
       out' = [op |-> "charging", self |-> self,
               result |-> get_charging_amounts(arena, self)]
  /\ UNCHANGED <<labA, labB, labC, t1, t2, arena>>
  /\ UNCHANGED qvars

ChainNext == NewLabel \/ PathFromLastCustomer \/ ChargingAmounts

ChainSpec == ChainInit /\ [][ChainNext]_vars

\* The charge amount computed at one label.
ChargeAt(l) ==
  l.energy_consumed_since_last_cs + get_first_supp_pt_soc(l) - l.soc_arr_to_last_cs

\* The root of the ancestor chain of the label at index i.
RECURSIVE RootOf(_, _)
RootOf(labels, i) ==
  IF labels[i].parent = None THEN i ELSE RootOf(labels, labels[i].parent)

\* The amounts of the runs of equal last_visited_cs from the label at index i
\* back to the first ancestor without a charging station, oldest run first,
\* each taken at the oldest label of its run.
RECURSIVE AmountsPerRun(_, _)
AmountsPerRun(labels, i) ==
  IF i = None \/ labels[i].last_visited_cs = None THEN <<>>
  ELSE LET p == labels[i].parent
           boundary == p = None
                         \/ labels[p].last_visited_cs # labels[i].last_visited_cs
       IN IF boundary
            THEN Append(AmountsPerRun(labels, p), ChargeAt(labels[i]))
            ELSE AmountsPerRun(labels, p)

\* C4: for a label whose ancestor chain starts at a label without a charging
\* station, get_charging_amounts returns one amount per run of ancestors with
\* the same charging station, oldest first, each taken at the run's boundary
\* label; the empty list when the label has no charging station.
C4_OneAmountPerRun ==
  (out.op = "charging" /\ arena[RootOf(arena, out.self)].last_visited_cs = None) =>
    /\ out.result.status = "ok"
    /\ out.result.value = AmountsPerRun(arena, out.self)

\* The part of C4 the code does keep: no charging station, no amounts.
C4_NoStationNoAmounts ==
  (out.op = "charging" /\ arena[out.self].last_visited_cs = None) =>
    out.result = [status |-> "ok", value |-> <<>>]

\* The nodes from the label at index i back while the next ancestor exists and
\* has the same charging station as the labels seen so far.
RECURSIVE NodesOfRun(_, _)
NodesOfRun(labels, i) ==
  LET p == labels[i].parent
      here == <<labels[i].node_id_for_label>>
  IN IF \/ p = None
        \/ labels[p].last_visited_cs = None
        \/ labels[p].last_visited_cs # labels[i].last_visited_cs
       THEN here
       ELSE here \o NodesOfRun(labels, p)

\* C6: get_path_from_last_customer returns the empty list for a label without
\* a charging station; otherwise the node ids from the label back, stopping
\* when the next ancestor has no charging station, has a different one, or
\* does not exist; it raises no error on any chain.
C6_PathStopsAtChange ==
  out.op = "path" =>
    /\ out.result.status = "ok"
    /\ out.result.value =
         (IF arena[out.self].last_visited_cs = None THEN <<>>
          ELSE NodesOfRun(arena, out.self))

\* C6 with the chains left out whose walk passes the root: the lists still
\* differ, the walk of the code stopping where the charging station repeats.
C6_PathStopsAtChangeBelowRoot ==
  (out.op = "path" /\ out.result.status = "ok") =>
    out.result.value =
      (IF arena[out.self].last_visited_cs = None THEN <<>>
       ELSE NodesOfRun(arena, out.self))

====
